---- MODULE Spec2Model ----
(***************************************************************************)
(* Model of the invoker's rank assignment and restart reconciliation:      *)
(* RunArgs and its helpers (run.go), the rank resolver (masterAndRank),    *)
(* the state store (ism.go) and the state manager (state_manager.go).      *)
(***************************************************************************)
EXTENDS Integers, Sequences, FiniteSets, TLC

VARIABLES
    \* the state manager (state_manager.go)
    page,         \* StateManager.page: Host -> (ProjectExperimentStr -> StateMatch)
    toRestart,    \* StateManager.toRestart: ProjectExperimentStr -> RunArgs
    joinErr,      \* what the latest JoinLocalMatches returned
    lastMatches,  \* the arguments of the latest JoinLocalMatches call
    pagesUsed,    \* number of pages handed to JoinLocalMatches so far
    \* the restart predicate
    sm,           \* a StateMatch
    restart,      \* what ShouldRestart returned for it
    \* launch (run.go, masterAndRank)
    args,         \* the RunArgs of the launch
    node,         \* this node: its addresses and what its environment lets succeed
    rankRes,      \* what masterAndRank(args.Hosts) returned
    runRes,       \* how Run(args) ended and what it did
    desired,      \* what args.Restartable() returned
    \* the state store (ism.go)
    dir,          \* the entries of the restart directory, by name
    slash,        \* whether the restart path was given with a trailing separator
    States,       \* InnerStateManager.States: nil, or a map by ProjectExperimentStr
    storeErr,     \* what the latest operation on the store returned
    lastOp,       \* the latest operation on the store
    trip,         \* progress of a flush, a new store and a load, in that order
    flushed,      \* the entries in memory at the latest successful flush
    loadedOnly,   \* whether every entry in memory was put there by a load
    prev,         \* the directory, operation and result before the latest operation
    lastKey,      \* the (projectName, experimentName) of the latest SetState
    \* RunArgs.Equal
    eqL,          \* the receiver of Equal
    eqR,          \* its argument
    eqRes,        \* what Equal returned
    \* the container runtime and FindLocalMatch
    containers,   \* the containers of the local host, by name
    found         \* what the latest FindLocalMatch returned, and what it was given

varsJoin == <<page, toRestart, joinErr, lastMatches, pagesUsed>>
varsPred == <<sm, restart>>
varsRun == <<args, node, rankRes, runRes, desired>>
varsStore == <<dir, slash, States, storeErr, lastOp, trip, flushed, loadedOnly, prev, lastKey>>
varsEqual == <<eqL, eqR, eqRes>>
varsFind == <<containers, found>>
vars == <<varsJoin, varsPred, varsRun, varsStore, varsEqual, varsFind>>

\* what an operation on one component leaves alone
notJoin == <<varsPred, varsRun, varsStore, varsEqual, varsFind>>
notPred == <<varsJoin, varsRun, varsStore, varsEqual, varsFind>>
notRun == <<varsJoin, varsPred, varsStore, varsEqual, varsFind>>
notStore == <<varsJoin, varsPred, varsRun, varsEqual, varsFind>>
notEqual == <<varsJoin, varsPred, varsRun, varsStore, varsFind>>

\* ------------------------------------------------------------------ values

Running == "running"
Stoppable == "stoppable"
State == {Running, Stoppable}

\* a Go *string: nil, or a pointer to a string
NilPtr == [nil |-> TRUE, val |-> ""]
PtrTo(e) == [nil |-> FALSE, val |-> e]

\* a Go []string: nil, or a slice (possibly empty)
NilSlice == [nil |-> TRUE, elems |-> <<>>]
Slice(s) == [nil |-> FALSE, elems |-> s]

\* strings that are only split and compared are sequences of symbols; the
\* symbol "P" stands for the text hf_action_restartable, "r" for running
RestartableTok == <<"P", "=", "r">>

Host1 == "10.0.0.1"
Host2 == "10.0.0.2"
Hosts == {Host1, Host2}

RunArgs(proj, hosts, nproc, exper, port, run, rep, rest, cname, mhost, nopy) ==
    [ProjectName |-> proj, Hosts |-> hosts, NProcPerNode |-> nproc,
     ExperimentName |-> exper, Port |-> port, RunName |-> run,
     MaxRepeats |-> rep, Rest |-> rest, ContainerName |-> cname,
     MasterHost |-> mhost, NoPython |-> nopy]

\* ------------------------------------------------------------------ RunArgs.Equal

\* one field of a gob-encoded struct: its index and its value
GobField(f, i, s, ss, ts) == [f |-> f, i |-> i, s |-> s, ss |-> ss, ts |-> ts]

GobInt(f, n) == IF n = 0 THEN <<>> ELSE <<GobField(f, n, "", <<>>, <<>>)>>
GobString(f, s) == IF s = "" THEN <<>> ELSE <<GobField(f, 0, s, <<>>, <<>>)>>
GobPtr(f, p) == IF p.nil THEN <<>> ELSE GobString(f, p.val)
GobStrings(f, l) ==
    IF l.nil \/ Len(l.elems) = 0 THEN <<>> ELSE <<GobField(f, 0, "", l.elems, <<>>)>>
GobTokens(f, l) ==
    IF l.nil \/ Len(l.elems) = 0 THEN <<>> ELSE <<GobField(f, 0, "", <<>>, l.elems)>>

\* gob.NewEncoder(&buf).Encode(r): the fields in declaration order, a field
\* holding its zero value (or a nil pointer, or a pointer to a zero value) left out
GobEncode(r) ==
    GobString(1, r.ProjectName) \o GobStrings(2, r.Hosts) \o GobInt(3, r.NProcPerNode)
    \o GobString(4, r.ExperimentName) \o GobInt(5, r.Port) \o GobString(6, r.RunName)
    \o GobInt(7, r.MaxRepeats) \o GobTokens(8, r.Rest) \o GobPtr(9, r.ContainerName)
    \o GobPtr(10, r.MasterHost) \o GobPtr(11, r.NoPython)

Equal(r, a) == GobEncode(r) = GobEncode(a)

\* the RunArgs Equal is given: the list fields nil, empty, filled
\* and reordered, and the optional fields nil, pointing to "" and to a text
EqualHosts == {NilSlice, Slice(<<>>), Slice(<<Host1, Host2>>), Slice(<<Host2, Host1>>)}
EqualRests ==
    {NilSlice, Slice(<<RestartableTok, <<"x">>>>), Slice(<<<<"x">>, RestartableTok>>)}
EqualArgs ==
    {RunArgs("proj", hosts, nproc, "exp1", 1234, "run", 0, rest, cname, mhost, nopy) :
        hosts \in EqualHosts, nproc \in {1, 2}, rest \in EqualRests,
        cname \in {NilPtr, PtrTo(""), PtrTo("name")},
        mhost \in {NilPtr, PtrTo("")}, nopy \in {NilPtr, PtrTo("")}}

NotCalled == [called |-> FALSE, equal |-> FALSE]

InitEqual ==
    /\ eqL \in EqualArgs
    /\ eqR \in EqualArgs
    /\ eqRes = NotCalled

CallEqual ==
    /\ eqRes = NotCalled
    /\ eqRes' = [called |-> TRUE, equal |-> Equal(eqL, eqR)]
    /\ UNCHANGED <<eqL, eqR, notEqual>>

\* every field of a and b is the same: the lists element by element, the
\* optional fields both absent or both present with the same text
SameFields(a, b) ==
    /\ a.ProjectName = b.ProjectName /\ a.ExperimentName = b.ExperimentName
    /\ a.RunName = b.RunName /\ a.NProcPerNode = b.NProcPerNode
    /\ a.Port = b.Port /\ a.MaxRepeats = b.MaxRepeats
    /\ a.Hosts.elems = b.Hosts.elems /\ a.Rest.elems = b.Rest.elems
    /\ a.ContainerName = b.ContainerName /\ a.MasterHost = b.MasterHost
    /\ a.NoPython = b.NoPython

\* C14: Equal returns true exactly when every field is the same, an absent
\* optional field being different from one present and empty
C14_EqualIffSameFields ==
    eqRes.called => (eqRes.equal = SameFields(eqL, eqR))

\* ------------------------------------------------------------------ StateMatch

badExitCodes == {1, 255}
okExitCodes == {0, 137}

StateMatch(e, a, r) == [Expected |-> e, Actual |-> a, RunArgs |-> r]

ShouldRestartNoOkSet(s) == s.Expected = Running /\ s.Actual \in badExitCodes

ShouldRestart(s) ==
    s.Expected = Running /\ (s.Actual \in badExitCodes \/ s.Actual \notin okExitCodes)

\* ------------------------------------------------------------------ pages

EmptyMap == [x \in {} |-> x]

\* m[k] = v on a Go map
MapSet(m, k, v) == [x \in DOMAIN m \cup {k} |-> IF x = k THEN v ELSE m[x]]

\* DefaultProjExpContainerName, ProjectExperimentState.Name: project-experiment
DefaultProjExpContainerName(projectName, experimentName) ==
    projectName \o "-" \o experimentName

ExperimentNames == {"exp1", "exp2"}

ArgsA(exper) ==
    RunArgs("proj", Slice(<<Host1, Host2>>), 1, exper, 1234, "run", 0,
            Slice(<<RestartableTok>>), NilPtr, NilPtr, NilPtr)
\* the same job launched with another NProcPerNode
ArgsB(exper) == [ArgsA(exper) EXCEPT !.NProcPerNode = 2]

\* the observations a host reports for a job: crashed, alive, and not to be
\* restarted (reported with the other run args)
Observations(exper) ==
    {StateMatch(Running, 1, ArgsA(exper)), StateMatch(Running, 137, ArgsA(exper)),
     StateMatch(Stoppable, 1, ArgsB(exper))}

\* a RetStatePage as FindLocalMatch marshals it: one host, here with one job
LocalPages ==
    UNION {{[h \in {host} |-> [e \in {DefaultProjExpContainerName("proj", exper)} |-> m]] :
                host \in Hosts, m \in Observations(exper)} : exper \in ExperimentNames}

\* an argument of JoinLocalMatches: a text json.Unmarshal decodes to a page, or not
PageText(p) == [ok |-> TRUE, page |-> p]
BadText == [ok |-> FALSE, page |-> EmptyMap]
Texts == {PageText(p) : p \in LocalPages} \cup {BadText}

MaxPages == 3

SeqsUpTo(S, n) == UNION {[1..k -> S] : k \in 0..n}

\* ------------------------------------------------------------------ JoinLocalMatches

\* a merge in which a cell already in the table is kept
MergeOneKeepOld(pg, p) ==
    [h \in DOMAIN pg \cup DOMAIN p |->
        IF h \in DOMAIN p
        THEN LET old == IF h \in DOMAIN pg THEN pg[h] ELSE EmptyMap
             IN [e \in DOMAIN old \cup DOMAIN p[h] |->
                    IF e \in DOMAIN old THEN old[e] ELSE p[h][e]]
        ELSE pg[h]]

\* lines 119-126: the cells of one decoded page are assigned into s.page
MergeOne(pg, p) ==
    [h \in DOMAIN pg \cup DOMAIN p |->
        IF h \in DOMAIN p
        THEN LET old == IF h \in DOMAIN pg THEN pg[h] ELSE EmptyMap
             IN [e \in DOMAIN old \cup DOMAIN p[h] |->
                    IF e \in DOMAIN p[h] THEN p[h][e] ELSE old[e]]
        ELSE pg[h]]

\* lines 114-127: the matches in order; an undecodable one returns at once
RECURSIVE MergeMatches(_, _)
MergeMatches(pg, matches) ==
    IF matches = <<>> THEN [page |-> pg, err |-> FALSE]
    ELSE IF ~Head(matches).ok THEN [page |-> pg, err |-> TRUE]
    ELSE MergeMatches(MergeOne(pg, Head(matches).page), Tail(matches))

\* lines 130-139: the hosts grouped by experiment
Grouped(pg) ==
    [e \in UNION {DOMAIN pg[h] : h \in DOMAIN pg} |->
        [h \in {h \in DOMAIN pg : e \in DOMAIN pg[h]} |-> pg[h][e]]]

\* the orders in which a range over a Go map may visit the keys S
Orders(S) ==
    {o \in [1..Cardinality(S) -> S] : \A i, j \in DOMAIN o : i # j => o[i] # o[j]}

\* what FirstValue may return for each experiment: the value of any host
FirstHosts(grouped) ==
    {f \in [DOMAIN grouped -> Hosts] : \A e \in DOMAIN grouped : f[e] \in DOMAIN grouped[e]}

\* lines 145-175: the experiments in the visiting order; unequal run args return
\* an error at once, leaving the experiments not yet visited undecided
RECURSIVE Decide(_, _, _, _)
Decide(grouped, order, first, tr) ==
    IF order = <<>> THEN [toRestart |-> tr, err |-> "nil"]
    ELSE LET experiment == Head(order)
             hostState == grouped[experiment]
             prevStateMatch == hostState[first[experiment]]
         IN IF \E host \in DOMAIN hostState :
                   ~Equal(prevStateMatch.RunArgs, hostState[host].RunArgs)
            THEN [toRestart |-> tr, err |-> "run args are not equal"]
            ELSE Decide(grouped, Tail(order), first,
                        IF \E host \in DOMAIN hostState : ShouldRestart(hostState[host])
                        THEN MapSet(tr, experiment, prevStateMatch.RunArgs)
                        ELSE tr)

JoinLocalMatches(matches) ==
    /\ pagesUsed + Len(matches) <= MaxPages
    /\ LET merged == MergeMatches(page, matches)
       IN /\ page' = merged.page
          /\ IF merged.err
             THEN /\ joinErr' = "failed to unmarshal page"
                  /\ toRestart' = toRestart
             ELSE \E order \in Orders(DOMAIN Grouped(merged.page)) :
                  \E first \in FirstHosts(Grouped(merged.page)) :
                     LET d == Decide(Grouped(merged.page), order, first, toRestart)
                     IN /\ toRestart' = d.toRestart
                        /\ joinErr' = d.err
    /\ lastMatches' = matches
    /\ pagesUsed' = pagesUsed + Len(matches)
    /\ UNCHANGED notJoin

\* NewStateManager: the page holds the local host with no experiment
curIP == Host1

InitJoin ==
    /\ page = [h \in {curIP} |-> EmptyMap]
    /\ toRestart = EmptyMap
    /\ joinErr = "none"
    /\ lastMatches = <<>>
    /\ pagesUsed = 0

NextJoin == \E matches \in SeqsUpTo(Texts, MaxPages - pagesUsed) : JoinLocalMatches(matches)

\* ------------------------------------------------------------------ merge and decide: claims

\* the latest call was handed decodable pages only
Joined == joinErr # "none" /\ \A i \in DOMAIN lastMatches : lastMatches[i].ok

\* the hosts observing an experiment in the merged table
Observers(e) == {h \in DOMAIN page : e \in DOMAIN page[h]}
Observed == UNION {DOMAIN page[h] : h \in DOMAIN page}

SameRunArgs(e) == \A g, h \in Observers(e) : page[g][e].RunArgs = page[h][e].RunArgs
NeedsRestart(e) == \E h \in Observers(e) : ShouldRestart(page[h][e])

\* C1: after merge-and-decide, every job whose observing hosts report the same
\* run args and one of whose hosts satisfies the restart predicate is in the
\* restart set, mapped to those run args
C1_WholeJobRestart ==
    Joined =>
        \A e \in Observed :
            (SameRunArgs(e) /\ NeedsRestart(e)) =>
                /\ e \in DOMAIN toRestart
                /\ \A h \in Observers(e) : toRestart[e] = page[h][e].RunArgs

\* C2: a job whose hosts report differing run args is left out of the restart
\* set, and every other job of the pass is in the restart set exactly when one
\* of its hosts needs a restart
C2_ConflictOnlyThatJob ==
    Joined =>
        \A e \in Observed :
            IF SameRunArgs(e)
            THEN (e \in DOMAIN toRestart) <=> NeedsRestart(e)
            ELSE e \notin DOMAIN toRestart

\* C4: after merge-and-decide, a job none of whose observing hosts satisfies the
\* restart predicate is not in the restart set
C4_HealthyNotRestarted ==
    Joined => \A e \in DOMAIN toRestart : e \in Observed /\ NeedsRestart(e)

\* the table of the latest call's pages alone, merged into a new page
LatestPage == MergeMatches([h \in {curIP} |-> EmptyMap], lastMatches).page

\* C17: after merge-and-decide the restart set holds only jobs for which a
\* host of the latest call's pages reports a match that satisfies the restart
\* predicate; neither an earlier call's decision nor an earlier call's
\* observation keeps a job in it
C17_OnlyLatestPass ==
    Joined =>
        \A e \in DOMAIN toRestart :
            \E h \in DOMAIN LatestPage :
                e \in DOMAIN LatestPage[h] /\ ShouldRestart(LatestPage[h][e])

\* the last of the latest call's pages that holds a cell for host h, experiment e
HasCell(m, h, e) == h \in DOMAIN m.page /\ e \in DOMAIN m.page[h]
LastWith(h, e) ==
    CHOOSE i \in DOMAIN lastMatches :
        /\ HasCell(lastMatches[i], h, e)
        /\ \A j \in DOMAIN lastMatches : HasCell(lastMatches[j], h, e) => j <= i

\* C5: every cell of every page handed to merge-and-decide is in the merged
\* table, and holds the match of the last page that has the cell
C5_LaterPageWins ==
    Joined =>
        /\ joinErr # "failed to unmarshal page"
        /\ \A i \in DOMAIN lastMatches :
             \A h \in DOMAIN lastMatches[i].page :
               \A e \in DOMAIN lastMatches[i].page[h] :
                  /\ h \in DOMAIN page
                  /\ e \in DOMAIN page[h]
                  /\ page[h][e] = lastMatches[LastWith(h, e)].page[h][e]

\* a call handed two pages with different matches for the same host and job
C5_Witness ==
    /\ Joined
    /\ \E i, j \in DOMAIN lastMatches :
         \E h \in DOMAIN lastMatches[i].page :
           \E e \in DOMAIN lastMatches[i].page[h] :
              /\ i < j
              /\ HasCell(lastMatches[j], h, e)
              /\ lastMatches[j].page[h][e] # lastMatches[i].page[h][e]
              /\ \E g \in DOMAIN page : \E f \in DOMAIN page[g] : <<g, f>> # <<h, e>>

\* ------------------------------------------------------------------ restart predicate

\* exit codes -1 .. MaxExitCode
MaxExitCode == 256
ExitCodes == -1..MaxExitCode

InitPred ==
    /\ sm \in {StateMatch(e, a, ArgsA("exp1")) : e \in State, a \in ExitCodes}
    /\ restart = "unset"

CallShouldRestart ==
    /\ restart = "unset"
    /\ restart' = IF ShouldRestart(sm) THEN "restart" ELSE "keep"
    /\ sm' = sm
    /\ UNCHANGED notPred

\* C3: the restart predicate holds exactly when Expected is Running and the
\* exit code is neither 0 nor 137
C3_RestartPredicate ==
    restart # "unset" =>
        (restart = "restart" <=> (sm.Expected = Running /\ sm.Actual \notin {0, 137}))

\* the predicate was applied to a job to be kept running whose exit code, 42,
\* is in neither set
C3_Witness ==
    /\ restart = "restart"
    /\ sm.Expected = Running
    /\ sm.Actual = 42

\* ------------------------------------------------------------------ masterAndRank

ErrOmitHost == "ip not found in hosts list"

\* the addresses masterAndRank compares with: the public one and the local ones
IPs(n) == {n.pub} \cup n.loc

\* a scan that does not stop at the first host found
RECURSIVE ScanHostsNoBreak(_, _, _)
ScanHostsNoBreak(hosts, ips, i) ==
    IF i > Len(hosts) THEN -1
    ELSE LET later == ScanHostsNoBreak(hosts, ips, i + 1)
         IN IF later # -1 THEN later ELSE IF hosts[i] \in ips THEN i - 1 ELSE -1

\* lines 103-109: the index (from 0) of the first host among ips, else -1
RECURSIVE ScanHosts(_, _, _)
ScanHosts(hosts, ips, i) ==
    IF i > Len(hosts) THEN -1
    ELSE IF hosts[i] \in ips THEN i - 1
    ELSE ScanHosts(hosts, ips, i + 1)

masterAndRank(hosts, n) ==
    IF n.lookup = "no public IP"
    THEN [master |-> "", rank |-> 0, err |-> "failed to get public IP"]
    ELSE IF n.lookup = "no local IPs"
    THEN [master |-> "", rank |-> 0, err |-> "failed to get local IPs"]
    ELSE LET master == hosts[1]
             rank == ScanHosts(hosts, IPs(n), 1)
         IN IF Len(hosts) = 1 /\ master = "localhost"
            THEN [master |-> master, rank |-> 1, err |-> "nil"]
            ELSE IF rank = -1
            THEN [master |-> "", rank |-> 0, err |-> ErrOmitHost]
            ELSE [master |-> master, rank |-> rank, err |-> "nil"]

\* ------------------------------------------------------------------ Run

nameFromRunArgs(a) ==
    IF ~a.ContainerName.nil /\ a.ContainerName.val # ""
    THEN a.ContainerName.val
    ELSE DefaultProjExpContainerName(a.ProjectName, a.ExperimentName)

masterHostElseFirstHost(a) ==
    IF ~a.MasterHost.nil /\ a.MasterHost.val # ""
    THEN a.MasterHost.val
    ELSE a.Hosts.elems[1]

RunResult(exit, did, rank, master) ==
    [exit |-> exit, did |-> did, rank |-> rank, master |-> master]

\* lines 103-152, after the rank is known: the port check (rank 0 only), the
\* directories, the working directory, hf.py and the container; the first step
\* that fails exits with 1
RunFrom(a, n, rank, master) ==
    LET port == IF rank = 0 THEN {"port check"} ELSE {}
    IN IF rank = 0 /\ n.fail = "port" THEN RunResult("1", port, rank, master)
       ELSE IF n.fail = "dirs" THEN RunResult("1", port \cup {"directories"}, rank, master)
       ELSE IF n.fail = "cwd" THEN RunResult("1", port \cup {"directories"}, rank, master)
       ELSE IF n.fail = "docker"
       THEN RunResult("1", port \cup {"directories", "hf.py", "container"}, rank, master)
       ELSE RunResult("returned", port \cup {"directories", "hf.py", "container"}, rank, master)

\* lines 82-101: masterAndRankElseExit is called for more than one host only
Run(a, n) ==
    IF Len(a.Hosts.elems) > 1
    THEN LET r == masterAndRank(a.Hosts.elems, n)
         IN IF r.err = ErrOmitHost THEN RunResult("0", {}, 0, "")
            ELSE IF r.err # "nil" THEN RunResult("1", {}, 0, "")
            ELSE RunFrom(a, n, r.rank, masterHostElseFirstHost(a))
    ELSE RunFrom(a, n, 0, "localhost")

\* ------------------------------------------------------------------ launch: specification

HostNames == {Host1, Host2, "10.0.0.3", "localhost"}
MaxHosts == 3
HostLists == UNION {[1..k -> HostNames] : k \in 1..MaxHosts}

Nodes ==
    [lookup : {"ok", "no public IP", "no local IPs"},
     pub : {Host1, "10.0.0.9"},
     loc : {{}, {Host2}},
     fail : {"none", "port", "dirs", "cwd", "docker"}]

NoRank == [master |-> "", rank |-> 0, err |-> "unset"]
NoRun == RunResult("unset", {}, 0, "")

InitRank ==
    /\ \E hosts \in HostLists, mh \in {NilPtr, PtrTo(Host2)} :
          args = [ArgsA("exp1") EXCEPT !.Hosts = Slice(hosts), !.MasterHost = mh]
    /\ node \in Nodes
    /\ rankRes = NoRank
    /\ runRes = NoRun
    /\ desired = "unset"

CallMasterAndRank ==
    /\ rankRes = NoRank
    /\ rankRes' = masterAndRank(args.Hosts.elems, node)
    /\ UNCHANGED <<args, node, runRes, desired, notRun>>

CallRun ==
    /\ runRes = NoRun
    /\ runRes' = Run(args, node)
    /\ UNCHANGED <<args, node, rankRes, desired, notRun>>

\* the first position (from 1) of hosts that is one of the node's addresses
IsLocal(i) == args.Hosts.elems[i] \in IPs(node)
NoLocalHost == \A i \in DOMAIN args.Hosts.elems : ~IsLocal(i)
Placeholder == args.Hosts.elems = <<"localhost">>

\* C6: for a host list other than the placeholder, masterAndRank returns the
\* index of the first host that is one of the node's addresses, and ErrOmitHost
\* exactly when no host is
C6_RankIsFirstLocalIndex ==
    (rankRes # NoRank /\ node.lookup = "ok" /\ ~Placeholder) =>
        /\ rankRes.err = ErrOmitHost <=> NoLocalHost
        /\ rankRes.err \in {"nil", ErrOmitHost}
        /\ \A i \in DOMAIN args.Hosts.elems :
              (IsLocal(i) /\ \A j \in 1..(i - 1) : ~IsLocal(j)) => rankRes.rank = i - 1

\* a list whose second and third hosts are both addresses of the node
C6_Witness ==
    /\ rankRes # NoRank
    /\ node.lookup = "ok"
    /\ Len(args.Hosts.elems) = 3
    /\ ~IsLocal(1) /\ IsLocal(2) /\ IsLocal(3)
    /\ args.Hosts.elems[2] # args.Hosts.elems[3]
    /\ rankRes.rank = 1

\* C7: launched with a host list, other than the placeholder, that holds none of
\* the node's addresses, Run exits with 0 and has done nothing
C7_OmittedHostDoesNothing ==
    (runRes # NoRun /\ node.lookup = "ok" /\ ~Placeholder /\ NoLocalHost) =>
        /\ runRes.exit = "0"
        /\ runRes.did = {}

\* ------------------------------------------------------------------ RunArgs.Restartable

\* strings.HasPrefix
HasPrefix(str, prefix) ==
    Len(str) >= Len(prefix) /\ SubSeq(str, 1, Len(prefix)) = prefix

\* strings.Split(str, sep) for a separator of one symbol: the pieces around it
RECURSIVE Split(_, _)
Split(str, sep) ==
    IF \A i \in DOMAIN str : str[i] # sep THEN <<str>>
    ELSE LET at == CHOOSE i \in DOMAIN str :
                      str[i] = sep /\ \A j \in 1..(i - 1) : str[j] # sep
         IN <<SubSeq(str, 1, at - 1)>> \o Split(SubSeq(str, at + 1, Len(str)), sep)

\* lines 35-49: the loop over Rest from its i-th token; indexing the pieces of a
\* token that has no "=" panics
RECURSIVE RestartableFrom(_, _)
RestartableFrom(rest, i) ==
    IF i > Len(rest) THEN Stoppable
    ELSE IF HasPrefix(rest[i], <<"P">>)
    THEN IF Len(Split(rest[i], "=")) < 2 THEN "panic: index out of range"
         ELSE IF Split(rest[i], "=")[2] = <<"r">> THEN Running
         ELSE RestartableFrom(rest, i + 1)
    ELSE RestartableFrom(rest, i + 1)

Restartable(r) ==
    IF Len(r.Rest.elems) = 0 THEN Stoppable ELSE RestartableFrom(r.Rest.elems, 1)

\* the tokens of Rest: up to MaxTokLen symbols, "x" being any other text
TokSymbols == {"P", "=", "r", "x"}
MaxTokLen == 4
MaxRest == 2
Tokens == UNION {[1..k -> TokSymbols] : k \in 0..MaxTokLen}
Rests == {NilSlice} \cup {Slice(l) : l \in UNION {[1..k -> Tokens] : k \in 0..MaxRest}}

InitRestartable ==
    /\ \E rest \in Rests : args = [ArgsA("exp1") EXCEPT !.Rest = rest]
    /\ node = [lookup |-> "ok", pub |-> Host1, loc |-> {}, fail |-> "none"]
    /\ rankRes = NoRank
    /\ runRes = NoRun
    /\ desired = "unset"

CallRestartable ==
    /\ desired = "unset"
    /\ desired' = Restartable(args)
    /\ UNCHANGED <<args, node, rankRes, runRes, notRun>>

\* C8: Restartable never fails, and returns Running exactly when Rest holds the
\* token hf_action_restartable=running
C8_RunningIffExactToken ==
    desired # "unset" =>
        desired = IF \E i \in DOMAIN args.Rest.elems : args.Rest.elems[i] = RestartableTok
                  THEN Running
                  ELSE Stoppable

\* ------------------------------------------------------------------ state files

\* the symbols of project, experiment and file names, in byte order; "running"
\* and "stoppable" stand for those words, "x" for any other text
SymRank ==
    [y \in {"-", ".", "a", "b", "c", "running", "stoppable", "x"} |->
        CASE y = "-" -> 1 [] y = "." -> 2 [] y = "a" -> 3 [] y = "b" -> 4
          [] y = "c" -> 5 [] y = "running" -> 6 [] y = "stoppable" -> 7 [] y = "x" -> 8]

\* name order of os.ReadDir
NameLess(m, n) ==
    \/ Len(m) < Len(n) /\ SubSeq(n, 1, Len(m)) = m
    \/ \E i \in 1..Len(m) :
          /\ i <= Len(n)
          /\ SubSeq(m, 1, i - 1) = SubSeq(n, 1, i - 1)
          /\ SymRank[m[i]] < SymRank[n[i]]

RECURSIVE SortedNames(_)
SortedNames(S) ==
    IF S = {} THEN <<>>
    ELSE LET least == CHOOSE n \in S : \A m \in S \ {n} : NameLess(n, m)
         IN <<least>> \o SortedNames(S \ {least})

isValidState(state) == state \in {<<Running>>, <<Stoppable>>}

\* ProjectExperimentState.Name
Name(projectName, experimentName) == projectName \o <<"-">> \o experimentName

\* the file name Write formats: project.experiment.state
StateFileName(p) == p.ProjectName \o <<".">> \o p.ExperimentName \o <<".">> \o <<p.State>>

ProjectExperimentState(projectName, experimentName, state, runArgs) ==
    [ProjectName |-> projectName, ExperimentName |-> experimentName,
     State |-> state, RunArgs |-> runArgs]

\* encoding/json writes a string that is not valid UTF-8 with U+FFFD in place
\* of the bad bytes
InvalidUtf8 == "run<ff>"
JsonString(str) == IF str = InvalidUtf8 THEN "run<fffd>" ELSE str
JsonPtr(ptr) == IF ptr.nil THEN ptr ELSE PtrTo(JsonString(ptr.val))
JsonStrings(l) ==
    IF l.nil THEN l ELSE Slice([i \in DOMAIN l.elems |-> JsonString(l.elems[i])])

\* json.Marshal(p.RunArgs) as the RunArgs its text decodes to: nil slices and
\* pointers are written null and read back nil, empty ones stay empty
JsonMarshal(r) ==
    [ok |-> TRUE,
     args |-> RunArgs(JsonString(r.ProjectName), JsonStrings(r.Hosts), r.NProcPerNode,
                      JsonString(r.ExperimentName), r.Port, JsonString(r.RunName),
                      r.MaxRepeats, r.Rest, JsonPtr(r.ContainerName),
                      JsonPtr(r.MasterHost), JsonPtr(r.NoPython))]
\* a file body that does not decode as RunArgs
Garbage == [ok |-> FALSE, args |-> ArgsA("c")]

File(body) == [isDir |-> FALSE, empty |-> FALSE, body |-> body]
Directory(empty) == [isDir |-> TRUE, empty |-> empty, body |-> Garbage]

\* ------------------------------------------------------------------ InnerStateManager

NilMap == [nil |-> TRUE, m |-> EmptyMap]
Map(m) == [nil |-> FALSE, m |-> m]

Panic == "panic: assignment to entry in nil map"

isStateFile(filename) == Len(Split(filename, ".")) = 3

\* readState: the file is opened at defaultRestartPath + stateFile, which is a
\* path in the directory only if the restart path ends in a separator
readState(stateFile) ==
    IF ~slash \/ stateFile \notin DOMAIN dir
    THEN [err |-> "failed to open state file"]
    ELSE LET stateDesc == Split(stateFile, ".")
         IN IF Len(stateDesc) # 3 THEN [err |-> "invalid state file name"]
            ELSE IF ~isValidState(stateDesc[3]) THEN [err |-> "invalid state"]
            ELSE IF ~dir[stateFile].body.ok THEN [err |-> "failed to decode runArgs"]
            ELSE [err |-> "nil",
                  state |-> ProjectExperimentState(stateDesc[1], stateDesc[2],
                                                   stateDesc[3][1], dir[stateFile].body.args)]

\* FillStates, lines 138-152: the entries in name order
RECURSIVE FillFrom(_, _)
FillFrom(files, st) ==
    IF files = <<>> THEN [States |-> st, err |-> "nil"]
    ELSE IF dir[Head(files)].isDir \/ ~isStateFile(Head(files))
    THEN FillFrom(Tail(files), st)
    ELSE LET got == readState(Head(files))
         IN IF got.err # "nil" THEN [States |-> st, err |-> got.err]
            ELSE IF st.nil THEN [States |-> st, err |-> Panic]
            ELSE FillFrom(Tail(files),
                          Map(MapSet(st.m, Name(got.state.ProjectName, got.state.ExperimentName),
                                     got.state)))

\* a removal loop that removes nothing
RemoveFromNothing(files, d) == [dir |-> d, err |-> "nil"]

\* UpdateStates, lines 190-198: the entries in name order; a removal that fails
\* returns at once. os.Remove is given defaultRestartPath + name
RECURSIVE RemoveFrom(_, _)
RemoveFrom(files, d) ==
    IF files = <<>> THEN [dir |-> d, err |-> "nil"]
    ELSE IF d[Head(files)].isDir /\ ~isStateFile(Head(files))
    THEN RemoveFrom(Tail(files), d)
    ELSE IF ~slash \/ (d[Head(files)].isDir /\ ~d[Head(files)].empty)
    THEN [dir |-> d, err |-> "failed to remove file"]
    ELSE RemoveFrom(Tail(files), [n \in DOMAIN d \ {Head(files)} |-> d[n]])

\* UpdateStates, lines 200-204, and Write: the states in the visiting order;
\* os.Create fails on the name of a directory
RECURSIVE WriteFrom(_, _, _)
WriteFrom(order, st, d) ==
    IF order = <<>> THEN [dir |-> d, err |-> "nil"]
    ELSE LET stateFile == StateFileName(st[Head(order)])
         IN IF stateFile \in DOMAIN d /\ d[stateFile].isDir
            THEN [dir |-> d, err |-> "failed to write state"]
            ELSE WriteFrom(Tail(order), st,
                           MapSet(d, stateFile, File(JsonMarshal(st[Head(order)].RunArgs))))

\* GetState, lines 158-163, on the map st: the state of the entry with these
\* names, or an error
GetStateIn(st, projectName, experimentName) ==
    LET hits == {k \in DOMAIN st.m : /\ st.m[k].ProjectName = projectName
                                     /\ st.m[k].ExperimentName = experimentName}
    IN IF hits = {} THEN [state |-> "", err |-> "state not found"]
       ELSE [state |-> st.m[CHOOSE k \in hits : TRUE].State, err |-> "nil"]

GetState(projectName, experimentName) == GetStateIn(States, projectName, experimentName)

Tuples(st) ==
    {<<st.m[k].ProjectName, st.m[k].ExperimentName, st.m[k].State, st.m[k].RunArgs>> :
        k \in DOMAIN st.m}

Alive == storeErr # Panic

\* the store and its directory as an operation finds them
Before == [dir |-> dir, States |-> States, op |-> lastOp, err |-> storeErr]
NoKey == <<<<>>, <<>>>>

\* NewInnerStateManager: the directory is made if missing; States is left nil
NewInnerStateManager ==
    /\ Alive
    /\ States' = NilMap
    /\ storeErr' = "nil"
    /\ lastOp' = "NewInnerStateManager"
    /\ trip' = IF trip = "flushed" THEN "reopened" ELSE "none"
    /\ loadedOnly' = TRUE
    /\ prev' = Before
    /\ UNCHANGED <<dir, slash, flushed, lastKey, notStore>>

\* the caller gives the exported field States a map
MakeStates ==
    /\ Alive
    /\ States.nil
    /\ States' = Map(EmptyMap)
    /\ lastOp' = "MakeStates"
    /\ loadedOnly' = TRUE
    /\ prev' = Before
    /\ UNCHANGED <<dir, slash, storeErr, trip, flushed, lastKey, notStore>>

SetState(projectName, experimentName, state, runArgs) ==
    /\ Alive
    /\ IF States.nil
       THEN /\ storeErr' = Panic
            /\ States' = States
       ELSE /\ storeErr' = "nil"
            /\ States' = Map(MapSet(States.m, Name(projectName, experimentName),
                          ProjectExperimentState(projectName, experimentName, state, runArgs)))
    /\ lastOp' = "SetState"
    /\ trip' = "none"
    /\ loadedOnly' = FALSE
    /\ prev' = Before
    /\ lastKey' = <<projectName, experimentName>>
    /\ UNCHANGED <<dir, slash, flushed, notStore>>

FillStates ==
    /\ Alive
    /\ LET got == FillFrom(SortedNames(DOMAIN dir), States)
       IN /\ States' = got.States
          /\ storeErr' = got.err
    /\ lastOp' = "FillStates"
    /\ trip' = IF trip = "reopened" THEN "loaded" ELSE "none"
    /\ prev' = Before
    /\ UNCHANGED <<dir, slash, flushed, loadedOnly, lastKey, notStore>>

UpdateStates ==
    /\ Alive
    /\ LET removed == RemoveFrom(SortedNames(DOMAIN dir), dir)
       IN IF removed.err # "nil"
          THEN /\ dir' = removed.dir
               /\ storeErr' = removed.err
          ELSE \E order \in Orders(DOMAIN States.m) :
                  LET written == WriteFrom(order, States.m, removed.dir)
                  IN /\ dir' = written.dir
                     /\ storeErr' = written.err
    /\ lastOp' = "UpdateStates"
    /\ trip' = IF storeErr' = "nil" THEN "flushed" ELSE "none"
    /\ flushed' = IF storeErr' = "nil" THEN Tuples(States) ELSE flushed
    /\ prev' = Before
    /\ UNCHANGED <<slash, States, loadedOnly, lastKey, notStore>>

\* ------------------------------------------------------------------ state store: specification

NameA == <<"a">>
NameC == <<"c">>
NameAB == <<"a", "-", "b">>
NameBC == <<"b", "-", "c">>
\* three jobs, two of which have the same project-experiment text
JobKeys == {<<NameAB, NameC>>, <<NameA, NameBC>>, <<NameA, NameC>>}

StoreArgs == {ArgsA("c"), ArgsB("c")}
\* what SetState is called with: job (a, c) with either run args, the other
\* jobs with the first
StoreJobs ==
    {j \in JobKeys \X StoreArgs : j[1] = <<NameA, NameC>> \/ j[2] = ArgsA("c")}

\* what the directory may hold before the store is made: nothing, or up to
\* MaxStray of these entries
MaxStray == 2
Strays ==
    {<<<<"x">>, File(Garbage)>>,
     <<<<"x">>, Directory(FALSE)>>,
     <<<<"a", ".", "c", ".", "x">>, File(JsonMarshal(ArgsA("c")))>>,
     <<<<"a", ".", "c", ".", Running>>, Directory(TRUE)>>,
     <<<<"a", ".", "c", ".", Running>>, File(Garbage)>>,
     <<<<"a", ".", "c", ".", Stoppable>>, File(JsonMarshal(ArgsA("c")))>>,
     <<<<"c", ".", "c", ".", Running>>, Directory(FALSE)>>}
StrayDirs ==
    {d \in UNION {[N -> {s[2] : s \in Strays}] : N \in SUBSET {s[1] : s \in Strays}} :
        /\ Cardinality(DOMAIN d) <= MaxStray
        /\ \A n \in DOMAIN d : <<n, d[n]>> \in Strays}

InitStore ==
    /\ dir \in StrayDirs
    /\ slash \in BOOLEAN
    /\ States = NilMap
    /\ storeErr = "nil"
    /\ lastOp = "NewInnerStateManager"
    /\ trip = "none"
    /\ flushed = {}
    /\ loadedOnly = TRUE
    /\ prev = [dir |-> dir, States |-> NilMap, op |-> "none", err |-> "nil"]
    /\ lastKey = NoKey

NextStore ==
    \/ NewInnerStateManager
    \/ MakeStates
    \/ \E j \in StoreJobs, state \in State : SetState(j[1][1], j[1][2], state, j[2])
    \/ FillStates
    \/ UpdateStates

\* C9: a flush, then a load by a new store of the same directory, succeeds and
\* yields the entries that were in memory at the flush
C9_RoundTrip ==
    trip = "loaded" => (storeErr = "nil" /\ Tuples(States) = flushed)

\* the entries of the directory that are state entries: files whose name has
\* three tokens, the third a state
Recognized == {n \in DOMAIN dir : ~dir[n].isDir /\ isStateFile(n) /\ isValidState(Split(n, ".")[3])}

\* C10: a load takes up state entries only, and no other entry makes it fail
C10_OthersSkipped ==
    lastOp = "FillStates" =>
        /\ Recognized = {} => storeErr = "nil"
        /\ loadedOnly => \A k \in DOMAIN States.m : StateFileName(States.m[k]) \in Recognized

\* C11: a flush that follows a successful flush, with nothing done to the
\* store in between, succeeds and leaves the directory as the first left it
C11_FlushIdempotent ==
    (lastOp = "UpdateStates" /\ prev.op = "UpdateStates" /\ prev.err = "nil") =>
        (storeErr = "nil" /\ dir = prev.dir)

\* the state files the entries in memory are written to
EntryFiles == {StateFileName(States.m[k]) : k \in DOMAIN States.m}

\* C12: after a successful flush the state files of the directory are those
\* of the entries in memory, one each, holding the entry's run args, and no
\* two of them are of the same project and experiment
C12_OneFilePerEntry ==
    (lastOp = "UpdateStates" /\ storeErr = "nil") =>
        /\ Recognized = EntryFiles
        /\ Cardinality(Recognized) = Cardinality(DOMAIN States.m)
        /\ \A k \in DOMAIN States.m :
              dir[StateFileName(States.m[k])].body = JsonMarshal(States.m[k].RunArgs)
        /\ \A m, n \in Recognized :
              SubSeq(Split(m, "."), 1, 2) = SubSeq(Split(n, "."), 1, 2) => m = n

\* a flush has replaced the file an earlier flush wrote for a job whose state
\* was set anew in between
C12_Witness ==
    /\ lastOp = "UpdateStates" /\ storeErr = "nil"
    /\ prev.op = "SetState"
    /\ \E k \in DOMAIN States.m :
          LET old == StateFileName([States.m[k] EXCEPT !.State = Running])
          IN /\ States.m[k].State = Stoppable
             /\ old \in DOMAIN prev.dir
             /\ prev.dir[old] = File(JsonMarshal(States.m[k].RunArgs))
             /\ old \notin DOMAIN dir

\* C13: a flush that returns an error leaves the directory as it found it
C13_FailedFlushNoChange ==
    (lastOp = "UpdateStates" /\ storeErr # "nil") => dir = prev.dir

\* C19: SetState on one (projectName, experimentName) leaves what GetState
\* returns for every other pair as it was, and adds an entry when the pair
\* had none
C19_SetLeavesOthers ==
    (lastOp = "SetState" /\ storeErr = "nil") =>
        /\ \A k \in JobKeys \ {lastKey} :
              GetState(k[1], k[2]) = GetStateIn(prev.States, k[1], k[2])
        /\ GetStateIn(prev.States, lastKey[1], lastKey[2]).err # "nil" =>
              Cardinality(DOMAIN States.m) = Cardinality(DOMAIN prev.States.m) + 1

\* ------------------------------------------------------------------ FindLocalMatch

\* string(experiment): the text of a name kept as a sequence of symbols
RECURSIVE Text(_)
Text(name) == IF name = <<>> THEN "" ELSE Head(name) \o Text(Tail(name))

\* a container as ContainerList reports it: up, or exited with a code
Up == [up |-> TRUE, code |-> 0]
Exited(code) == [up |-> FALSE, code |-> code]

\* getExitCode: the number of a status "Exited (n)", 0 for any other status
getExitCode(c) == IF c.up THEN 0 ELSE c.code

ErrContainerNotFound == "container not found"

\* a query that reports 0 for a container that is not found
containerStateAndExitCodeZero(daemon, containerName) ==
    IF containerName = "" THEN [exitCode |-> 0, err |-> "container name is empty"]
    ELSE IF daemon # "ok" THEN [exitCode |-> 0, err |-> "failed to list containers"]
    ELSE IF containerName \in DOMAIN containers
    THEN [exitCode |-> getExitCode(containers[containerName]), err |-> "nil"]
    ELSE [exitCode |-> 0, err |-> ErrContainerNotFound]

\* containerStateAndExitCode: the container with exactly this name among those
\* the daemon lists, if the daemon answers
containerStateAndExitCode(daemon, containerName) ==
    IF containerName = "" THEN [exitCode |-> 0, err |-> "container name is empty"]
    ELSE IF daemon # "ok" THEN [exitCode |-> 0, err |-> "failed to list containers"]
    ELSE IF containerName \in DOMAIN containers
    THEN [exitCode |-> getExitCode(containers[containerName]), err |-> "nil"]
    ELSE [exitCode |-> 1, err |-> ErrContainerNotFound]

NoJob == <<>>
Elems(l) == {l.elems[i] : i \in DOMAIN l.elems}

\* a loop that takes every error of the query for not found
RECURSIVE FindFromAnyError(_, _, _, _)
FindFromAnyError(order, st, pg, failing) ==
    IF order = <<>> THEN [page |-> pg, err |-> "nil"]
    ELSE LET experiment == Head(order)
             rargs == st[experiment].RunArgs
         IN IF curIP \notin Elems(rargs.Hosts)
            THEN FindFromAnyError(Tail(order), st, pg, failing)
            ELSE FindFromAnyError(Tail(order), st,
                     [pg EXCEPT ![curIP] =
                         MapSet(@, Text(experiment),
                                StateMatch(Restartable(rargs), 1, rargs))],
                     failing)

\* FindLocalMatch, lines 82-102: the entries of States in the visiting order;
\* the daemon fails to answer the query for the job failing, if there is one
RECURSIVE FindFrom(_, _, _, _)
FindFrom(order, st, pg, failing) ==
    IF order = <<>> THEN [page |-> pg, err |-> "nil"]
    ELSE LET experiment == Head(order)
             rargs == st[experiment].RunArgs
         IN IF curIP \notin Elems(rargs.Hosts)
            THEN FindFrom(Tail(order), st, pg, failing)
            ELSE LET expected == Restartable(rargs)
                     q == containerStateAndExitCode(
                              IF experiment = failing THEN "unreachable" ELSE "ok",
                              Text(experiment))
                 IN IF q.err # "nil" /\ q.err # ErrContainerNotFound
                    THEN [page |-> pg, err |-> "failed to get container state and exit code"]
                    ELSE FindFrom(Tail(order), st,
                                  [pg EXCEPT ![curIP] =
                                      MapSet(@, Text(experiment),
                                             StateMatch(expected, q.exitCode, rargs))],
                                  failing)

\* what FindLocalMatch returns: the marshalled page and nil, or "" and an
\* error; with it the job whose query the daemon would not answer, the local
\* page as the call found it, and the number of calls so far
Found(out, err, failing) ==
    [out |-> out, err |-> err, failing |-> failing, before |-> page[curIP],
     passes |-> found.passes + 1]
NotFound ==
    [out |-> BadText, err |-> "nil", failing |-> NoJob, before |-> EmptyMap, passes |-> 0]

MaxPasses == 2

FindLocalMatch ==
    /\ Alive
    /\ found.passes < MaxPasses
    /\ \E env \in {"ok", "bad"} :
          IF env # "ok"
          THEN /\ found' = Found(BadText, "failed to create docker client", NoJob)
               /\ UNCHANGED <<page, States, storeErr, lastOp, trip, prev>>
          ELSE LET got == FillFrom(SortedNames(DOMAIN dir), States)
               IN /\ States' = got.States
                  /\ storeErr' = got.err
                  /\ lastOp' = "FillStates"
                  /\ trip' = IF trip = "reopened" THEN "loaded" ELSE "none"
                  /\ prev' = Before
                  /\ IF got.err # "nil"
                     THEN /\ found' = Found(BadText, "failed to fill inner states", NoJob)
                          /\ page' = page
                     ELSE \E order \in Orders(DOMAIN got.States.m) :
                          \E failing \in {NoJob} \cup DOMAIN got.States.m :
                             LET r == FindFrom(order, got.States.m, page, failing)
                             IN /\ page' = r.page
                                /\ found' = Found(IF r.err = "nil" THEN PageText(r.page)
                                                                  ELSE BadText,
                                                  r.err, failing)
    /\ UNCHANGED <<toRestart, joinErr, lastMatches, pagesUsed, varsPred, varsRun, varsEqual,
                   dir, slash, flushed, loadedOnly, lastKey, containers>>

\* Run, lines 110 and 148-149: the container of the job is made anew under
\* the name nameFromRunArgs gives
LaunchContainer(a) ==
    /\ containers' = MapSet(containers, nameFromRunArgs(a), Up)
    /\ UNCHANGED <<found, varsJoin, varsPred, varsRun, varsEqual, varsStore>>

\* a container that is up exits
ContainerExits(name, code) ==
    /\ name \in DOMAIN containers
    /\ containers[name].up
    /\ containers' = [containers EXCEPT ![name] = Exited(code)]
    /\ UNCHANGED <<found, varsJoin, varsPred, varsRun, varsEqual, varsStore>>

\* ------------------------------------------------------------------ FindLocalMatch: specification

NameB == <<"b">>
\* job a-c, which lists the local host or does not and is launched with or
\* without a container name of its own, and job b-c
FindKeys == {<<NameA, NameC>>, <<NameB, NameC>>}
FindArgsFor(projectName, hosts, cname) ==
    RunArgs(Text(projectName), hosts, 1, Text(NameC), 1234, "run", 0,
            Slice(<<RestartableTok>>), cname, NilPtr, NilPtr)
FindArgs(k) ==
    IF k[1] = NameA
    THEN {FindArgsFor(k[1], Slice(<<Host1, Host2>>), NilPtr),
          FindArgsFor(k[1], Slice(<<Host1, Host2>>), PtrTo("custom")),
          FindArgsFor(k[1], Slice(<<Host2>>), NilPtr)}
    ELSE {FindArgsFor(k[1], Slice(<<Host1, Host2>>), NilPtr)}
FindJobs == UNION {{<<k, a>> : a \in FindArgs(k)} : k \in FindKeys}

\* NewStateManager: the store is on the default path, which has no trailing
\* separator; no container yet
InitFind ==
    /\ containers = EmptyMap
    /\ found = NotFound

\* the jobs are set, flushed and launched, then the passes are made
NextFind ==
    \/ found.passes = 0 /\ MakeStates
    \/ found.passes = 0 /\ \E j \in FindJobs : SetState(j[1][1], j[1][2], Running, j[2])
    \/ found.passes = 0 /\ UpdateStates
    \/ found.passes = 0 /\ \E j \in FindJobs : LaunchContainer(j[2])
    \/ found.passes = 0 /\ \E name \in DOMAIN containers : ContainerExits(name, 137)
    \/ FindLocalMatch

\* the jobs in memory that list the local host
LocalJobs == {k \in DOMAIN States.m : curIP \in Elems(States.m[k].RunArgs.Hosts)}
\* the latest pass had a docker client and loaded the state files
Queried ==
    /\ found.passes > 0
    /\ found.err # "failed to create docker client"
    /\ found.err # "failed to fill inner states"

\* C15: in a pass whose queries the daemon answers, a job that lists the local
\* host and has no container does not make the pass return an error, and is
\* on the returned page with Actual = 1
C15_NotFoundIsExitOne ==
    (Queried /\ found.failing \notin LocalJobs) =>
        \A k \in LocalJobs :
            Text(k) \notin DOMAIN containers =>
                /\ found.err = "nil"
                /\ found.out.ok
                /\ Text(k) \in DOMAIN found.out.page[curIP]
                /\ found.out.page[curIP][Text(k)].Actual = 1

\* a pass has returned a page on which a job without a container has Actual = 1
C15_Witness ==
    /\ Queried
    /\ found.failing \notin LocalJobs
    /\ \E k \in LocalJobs :
          /\ Text(k) \notin DOMAIN containers
          /\ found.out.ok
          /\ found.out.page[curIP][Text(k)].Actual = 1

\* C16: a pass in which the daemon fails to answer the query for a job returns
\* an error and no page, and leaves that job's cell of the page as it was
C16_OtherErrorAborts ==
    (Queried /\ found.failing \in LocalJobs) =>
        /\ found.err = "failed to get container state and exit code"
        /\ found.out = BadText
        /\ Text(found.failing) \in DOMAIN page[curIP] =>
              /\ Text(found.failing) \in DOMAIN found.before
              /\ page[curIP][Text(found.failing)] = found.before[Text(found.failing)]

\* the daemon has failed to answer the query for a job that has no container
\* and no cell, after the cell of another job was written
C16_Witness ==
    /\ Queried
    /\ found.failing \in LocalJobs
    /\ Text(found.failing) \notin DOMAIN containers
    /\ Text(found.failing) \notin DOMAIN page[curIP]
    /\ DOMAIN page[curIP] # DOMAIN found.before

\* C18: the name a pass queries for a job is the name nameFromRunArgs gives
\* its container, and after a pass that returned a page no job whose
\* container is up has Actual = 1 on it
C18_QueriedNameIsLaunchedName ==
    (found.passes > 0 /\ found.err = "nil") =>
        \A k \in LocalJobs :
            LET containerName == nameFromRunArgs(States.m[k].RunArgs)
            IN /\ Text(k) = containerName
               /\ (containerName \in DOMAIN containers /\ containers[containerName].up) =>
                     found.out.page[curIP][Text(k)].Actual # 1

\* ------------------------------------------------------------------ specifications

IdleJoin == InitJoin
IdleFind == InitFind
IdleEqual ==
    /\ eqL = RunArgs("", NilSlice, 0, "", 0, "", 0, NilSlice, NilPtr, NilPtr, NilPtr)
    /\ eqR = eqL
    /\ eqRes = NotCalled
IdlePred == sm = StateMatch(Stoppable, 0, ArgsA("exp1")) /\ restart = "unset"
IdleStore ==
    /\ dir = EmptyMap
    /\ slash = FALSE
    /\ States = NilMap
    /\ storeErr = "nil"
    /\ lastOp = "NewInnerStateManager"
    /\ trip = "none"
    /\ flushed = {}
    /\ loadedOnly = TRUE
    /\ prev = [dir |-> dir, States |-> NilMap, op |-> "none", err |-> "nil"]
    /\ lastKey = NoKey
IdleRun ==
    /\ args = ArgsA("exp1")
    /\ node = [lookup |-> "ok", pub |-> Host1, loc |-> {}, fail |-> "none"]
    /\ rankRes = NoRank
    /\ runRes = NoRun
    /\ desired = "unset"

\* merge and decide on one StateManager
StartJoin == InitJoin /\ IdlePred /\ IdleRun /\ IdleStore /\ IdleEqual /\ IdleFind
SpecJoin == StartJoin /\ [][NextJoin]_vars

\* the restart predicate on every expected state and exit code
StartPred == InitPred /\ IdleJoin /\ IdleRun /\ IdleStore /\ IdleEqual /\ IdleFind
NextPred == CallShouldRestart
SpecPred == StartPred /\ [][NextPred]_vars

\* rank resolution and launch for every host list and node
StartRank == InitRank /\ IdleJoin /\ IdlePred /\ IdleStore /\ IdleEqual /\ IdleFind
NextRank == CallMasterAndRank \/ CallRun
SpecRank == StartRank /\ [][NextRank]_vars

\* the desired state of every Rest
StartRestartable == InitRestartable /\ IdleJoin /\ IdlePred /\ IdleStore /\ IdleEqual /\ IdleFind
NextRestartable == CallRestartable
SpecRestartable == StartRestartable /\ [][NextRestartable]_vars

\* Equal on every pair of run args
StartEqual == InitEqual /\ IdleJoin /\ IdlePred /\ IdleRun /\ IdleStore /\ IdleFind
NextEqual == CallEqual
SpecEqual == StartEqual /\ [][NextEqual]_vars

\* the state manager's store, the containers and FindLocalMatch
StartFind == InitFind /\ IdleStore /\ IdleJoin /\ IdlePred /\ IdleRun /\ IdleEqual
SpecFind == StartFind /\ [][NextFind]_vars

\* the state store on one directory
StartStore == InitStore /\ IdleJoin /\ IdlePred /\ IdleRun /\ IdleEqual /\ IdleFind
SpecStore == StartStore /\ [][NextStore]_vars

====
